---- MODULE Spec2Model ----
(***************************************************************************)
(* Model of app.py: the CSV normalizer (load_and_clean_data), the          *)
(* relational loader (create_normalized_database) and the menu of          *)
(* projections (main and the four plot_* functions).                       *)
(*                                                                         *)
(* Three specifications share the variables:                               *)
(*   Spec      the loader run any number of times against one store,       *)
(*   SpecNorm  the normalizer applied to a raw frame,                      *)
(*   SpecMenu  the menu loop over one cleaned frame.                       *)
(***************************************************************************)
EXTENDS Integers, Sequences, FiniteSets, TLC

VARIABLES
    risp,            \* table 'risp'        : set of rows [id, descricao]
    municipio,       \* table 'municipio'   : set of rows [cod_municipio, nome, risp_id]
    tipo_crime,      \* table 'tipo_crime'  : set of rows [id, nome]
    crime,           \* table 'crime'       : set of rows [id, mes, ano, registros, rmbh, municipio_id, tipo_crime_id]
    df,              \* the cleaned frame the functions work on: a sequence of rows
                     \* (records keyed by column name); a skipped loader call never reads its frame
    tipo_crime_dict, \* the loader's name -> id mapping (a function on the names seen)
    pc,              \* where the running function is
    outcome,         \* how the last call of the loader ended
    error,           \* the exception that ended the last call ("" when none)
    store0,          \* history: the four tables when the current loader call began
    rerun,           \* history: this call repeats the previous call's frame, and that call began on an empty store
    other,           \* history: this call's frame differs from the frame last loaded
    raw,             \* the frame read_csv returned (normalizer input)
    tabela,          \* the table last printed by a projection
    frame0,          \* history: the cleaned frame main holds when the menu starts
    opcao            \* the menu option last typed

vars == <<risp, municipio, tipo_crime, crime, df, tipo_crime_dict, pc, outcome,
          error, store0, rerun, other, raw, tabela, frame0, opcao>>

(***************************************************************************)
(* Bounds                                                                  *)
(***************************************************************************)
MaxRows == 2          \* rows of a frame

(* A text cell is a sequence of characters.  NaN is pandas' missing value   *)
(* in a text or boolean column: read_csv reads the text NaN as missing, so *)
(* no text cell holds it                                                   *)
NaN == <<"NaN">>

(***************************************************************************)
(* Sequence helpers (pandas column operations)                             *)
(***************************************************************************)
SeqsUpTo(S, n) == UNION {[1..k -> S] : k \in 0..n}

Range(s) == {s[i] : i \in DOMAIN s}

(* Series.unique() / DataFrame.drop_duplicates(): first occurrences, in order *)
RECURSIVE UniqueFrom(_, _)
UniqueFrom(s, seen) ==
    IF s = <<>> THEN <<>>
    ELSE IF Head(s) \in seen THEN UniqueFrom(Tail(s), seen)
         ELSE <<Head(s)>> \o UniqueFrom(Tail(s), seen \cup {Head(s)})

Unique(s) == UniqueFrom(s, {})

Column(d, c) == [i \in DOMAIN d |-> d[i][c]]

SetMax(S) == IF S = {} THEN 0 ELSE CHOOSE x \in S : \A y \in S : y <= x

(***************************************************************************)
(* The store: the schema of lines 106-157 and its constraints.  A database *)
(* value db is a record of the four tables.  An INSERT answers             *)
(* [db, err]: err = "" and the row added, or the constraint that rejected  *)
(* it and db as it was.                                                    *)
(***************************************************************************)
(* the exceptions a statement can raise: IntegrityError for a constraint,    *)
(* and the driver's refusal to send NaN                                     *)
NoError == ""
DuplicateKey == "duplicate key"
NullValue == "null or invalid value in a NOT NULL column"
ForeignKey == "foreign key without referenced row"
BadParameter == "nan cannot be a query parameter"

EmptyStore == [risp |-> {}, municipio |-> {}, tipo_crime |-> {}, crime |-> {}]

Ok(db) == [db |-> db, err |-> NoError]

Fail(db, e) == [db |-> db, err |-> e]

(* AUTO_INCREMENT of tipo_crime.id and crime.id: rows are never deleted, so *)
(* the next value is above every id in the table                            *)
NextId(rows) == SetMax({x.id : x \in rows}) + 1

(* class Risp: id is the primary key *)
InsertRisp(db, row) ==
    IF \E x \in db.risp : x.id = row.id THEN Fail(db, DuplicateKey)
    ELSE Ok([db EXCEPT !.risp = @ \cup {row}])

(* class Municipio: nome NOT NULL, cod_municipio primary key, risp_id -> risp.id *)
InsertMunicipio(db, row) ==
    IF row.nome = NaN THEN Fail(db, NullValue)
    ELSE IF \E x \in db.municipio : x.cod_municipio = row.cod_municipio
         THEN Fail(db, DuplicateKey)
    ELSE IF ~ \E x \in db.risp : x.id = row.risp_id THEN Fail(db, ForeignKey)
    ELSE Ok([db EXCEPT !.municipio = @ \cup {row}])

(* class TipoCrime: id autoincrement, nome NOT NULL and unique *)
InsertTipoCrime(db, nome) ==
    IF nome = NaN THEN Fail(db, NullValue)
    ELSE IF \E x \in db.tipo_crime : x.nome = nome THEN Fail(db, DuplicateKey)
    ELSE Ok([db EXCEPT !.tipo_crime =
                 @ \cup {[id |-> NextId(db.tipo_crime), nome |-> nome]}])

(* class Crime: id autoincrement, every column NOT NULL, _crime_uc unique on *)
(* (municipio_id, tipo_crime_id, mes, ano), two foreign keys.  tid is the    *)
(* value of dict.get: {} for None, {id} otherwise                            *)
InsertCrime(db, row, tid) ==
    IF tid = {} \/ row.rmbh = NaN THEN Fail(db, NullValue)
    ELSE LET t == CHOOSE x \in tid : TRUE
         IN IF \E c \in db.crime :
                   /\ c.municipio_id = row.cod_municipio
                   /\ c.tipo_crime_id = t
                   /\ c.mes = row.mes
                   /\ c.ano = row.ano
            THEN Fail(db, DuplicateKey)
            ELSE IF \/ ~ \E m \in db.municipio : m.cod_municipio = row.cod_municipio
                    \/ ~ \E x \in db.tipo_crime : x.id = t
            THEN Fail(db, ForeignKey)
            ELSE Ok([db EXCEPT !.crime = @ \cup
                        {[id |-> NextId(db.crime), mes |-> row.mes, ano |-> row.ano,
                          registros |-> row.registros, rmbh |-> row.rmbh,
                          municipio_id |-> row.cod_municipio, tipo_crime_id |-> t]}])

(***************************************************************************)
(* create_normalized_database, step by step.  Inside a step tx = [db, err] *)
(* is the session: db is what its queries see (autoflush sends pending     *)
(* rows before each query), err the exception raised so far.  A raised     *)
(* exception ends the loop.                                                *)
(***************************************************************************)

(* variant: the check of line 166 left out *)
CrimeHasRowsNever(db) == FALSE

(* line 166: session.query(Crime).first() is not None *)
CrimeHasRows(db) == db.crime # {}

(* line 176: df['risp'].unique() *)
RispValues(d) == Unique(Column(d, "risp"))

(* line 178: session.query(Risp).filter_by(id=int(r)).first() *)
RispExists(db, r) == \E x \in db.risp : x.id = r

(* variant: the loop ends after its first insert *)
RECURSIVE RispLoopFirstOnly(_, _)
RispLoopFirstOnly(vals, tx) ==
    IF vals = <<>> \/ tx.err # NoError THEN tx
    ELSE LET r == Head(vals)
         IN IF RispExists(tx.db, r) THEN RispLoopFirstOnly(Tail(vals), tx)
            ELSE InsertRisp(tx.db, [id |-> r, descricao |-> <<"RISP ", r>>])

(* lines 177-181 *)
RECURSIVE RispLoop(_, _)
RispLoop(vals, tx) ==
    IF vals = <<>> \/ tx.err # NoError THEN tx
    ELSE LET r == Head(vals)
         IN RispLoop(Tail(vals),
                IF RispExists(tx.db, r) THEN tx
                ELSE InsertRisp(tx.db, [id |-> r, descricao |-> <<"RISP ", r>>]))

(* line 188: df[['cod_municipio', 'municipio', 'risp']].drop_duplicates() *)
MunicipioRows(d) ==
    Unique([i \in DOMAIN d |->
              [cod_municipio |-> d[i].cod_municipio,
               municipio |-> d[i].municipio,
               risp |-> d[i].risp]])

(* variant: the lookup filters on the name as well as the code *)
MunicipioExistsSameName(db, row) ==
    \E x \in db.municipio :
        x.cod_municipio = row.cod_municipio /\ x.nome = row.municipio

(* line 190: session.query(Municipio).filter_by(cod_municipio=...).first() *)
MunicipioExists(db, row) ==
    \E x \in db.municipio : x.cod_municipio = row.cod_municipio

(* variant: a municipality already stored takes the frame's name and region *)
RECURSIVE MunicipioLoopMerge(_, _)
MunicipioLoopMerge(rows, tx) ==
    IF rows = <<>> \/ tx.err # NoError THEN tx
    ELSE LET row == Head(rows)
             new == [cod_municipio |-> row.cod_municipio,
                     nome |-> row.municipio,
                     risp_id |-> row.risp]
         IN MunicipioLoopMerge(Tail(rows),
                IF MunicipioExists(tx.db, row)
                THEN Ok([tx.db EXCEPT !.municipio =
                            {x \in @ : x.cod_municipio # row.cod_municipio}
                                \cup {new}])
                ELSE InsertMunicipio(tx.db, new))

(* lines 189-197 *)
RECURSIVE MunicipioLoop(_, _)
MunicipioLoop(rows, tx) ==
    IF rows = <<>> \/ tx.err # NoError THEN tx
    ELSE LET row == Head(rows)
         IN MunicipioLoop(Tail(rows),
                IF MunicipioExists(tx.db, row) THEN tx
                ELSE InsertMunicipio(tx.db,
                         [cod_municipio |-> row.cod_municipio,
                          nome |-> row.municipio,
                          risp_id |-> row.risp]))

(* line 204: df["natureza_padronizada"].unique() *)
TipoNames(d) == Unique(Column(d, "natureza_padronizada"))

(* dict assignment tipo_crime_dict[nome] = id *)
DictPut(dict, k, v) ==
    [x \in DOMAIN dict \cup {k} |-> IF x = k THEN v ELSE dict[x]]

(* dict.get(k): {} stands for None *)
DictGet(dict, k) == IF k \in DOMAIN dict THEN {dict[k]} ELSE {}

(* variant: a missing name is kept as the text "NAN" *)
TipoStepNaNAsText(st, nome) ==
    LET text == IF nome = NaN THEN <<"N", "A", "N">> ELSE nome
        existing == {x \in st.db.tipo_crime : x.nome = text}
    IN IF existing = {}
       THEN LET ins == InsertTipoCrime(st.db, text)
            IN IF ins.err # NoError THEN [st EXCEPT !.err = ins.err]
               ELSE [db |-> ins.db, err |-> NoError,
                     dict |-> DictPut(st.dict, nome,
                                 (CHOOSE x \in ins.db.tipo_crime : x.nome = text).id)]
       ELSE [st EXCEPT !.dict =
                DictPut(st.dict, nome, (CHOOSE x \in existing : TRUE).id)]

(* lines 207-214, one name.  st = [db, err, dict]; db is committed after    *)
(* each insert (line 211).  A NaN name cannot be sent as a query parameter: *)
(* the query of line 207 raises.                                            *)
TipoStep(st, nome) ==
    IF nome = NaN THEN [st EXCEPT !.err = BadParameter]
    ELSE LET existing == {x \in st.db.tipo_crime : x.nome = nome}
         IN IF existing = {}
            THEN LET ins == InsertTipoCrime(st.db, nome)
                 IN IF ins.err # NoError THEN [st EXCEPT !.err = ins.err]
                    ELSE [db |-> ins.db, err |-> NoError,
                          dict |-> DictPut(st.dict, nome,
                                      (CHOOSE x \in ins.db.tipo_crime : x.nome = nome).id)]
            ELSE [st EXCEPT !.dict =
                     DictPut(st.dict, nome, (CHOOSE x \in existing : TRUE).id)]

(* lines 206-214 *)
RECURSIVE TipoLoop(_, _)
TipoLoop(names, st) ==
    IF names = <<>> \/ st.err # NoError THEN st
    ELSE TipoLoop(Tail(names), TipoStep(st, Head(names)))

(* variant: the lookup leaves the municipality out of the filter *)
CrimeExistsAnyMunicipio(db, row, tid) ==
    \E c \in db.crime :
        /\ c.tipo_crime_id \in tid
        /\ c.mes = row.mes
        /\ c.ano = row.ano

(* lines 223-228: session.query(Crime).filter_by(...).first(); a None       *)
(* tipo_crime_id compares with IS NULL and the column holds no NULL         *)
CrimeExists(db, row, tid) ==
    \E c \in db.crime :
        /\ c.municipio_id = row.cod_municipio
        /\ c.tipo_crime_id \in tid
        /\ c.mes = row.mes
        /\ c.ano = row.ano

(* lines 222-238 *)
RECURSIVE CrimeLoop(_, _, _)
CrimeLoop(rows, tx, dict) ==
    IF rows = <<>> \/ tx.err # NoError THEN tx
    ELSE LET row == Head(rows)
             tid == DictGet(dict, row.natureza_padronizada)
         IN CrimeLoop(Tail(rows),
                IF CrimeExists(tx.db, row, tid) THEN tx
                ELSE InsertCrime(tx.db, row, tid),
                dict)

(* variant: every incident row is committed when it is added, as the rows  *)
(* of step 3 are                                                           *)
CrimeCommitPerRow(tx, before) == tx.db.crime

(* line 239: the one commit of step 4, reached only when the loop ended    *)
(* without an exception.  tx is the session when the step ends, before the *)
(* rows of 'crime' the store held when the step began; the result is the   *)
(* rows it holds after the step                                            *)
CrimeCommit(tx, before) == IF tx.err = NoError THEN tx.db.crime ELSE before

(***************************************************************************)
(* The loader as a process: one call of create_normalized_database(df)     *)
(* after another against the same store.                                   *)
(***************************************************************************)
Store == [risp |-> risp, municipio |-> municipio,
          tipo_crime |-> tipo_crime, crime |-> crime]

PyTrue == <<"True">>
PyFalse == <<"False">>

(* cleaned rows offered to the loader, with the columns load_and_clean_data *)
(* returns: two municipalities, each with each crime type or with the type *)
(* missing (natureza_padronizada is NaN where natureza was missing), and   *)
(* one row that gives the first municipality's code another name and       *)
(* region                                                                  *)
Places ==
    {[cod_municipio |-> <<"0", "1">>, municipio |-> <<"B", "H">>, risp |-> 1],
     [cod_municipio |-> <<"0", "2">>, municipio |-> <<"B", "E", "T", "I", "M">>,
      risp |-> 2]}
Renamed ==
    [cod_municipio |-> <<"0", "1">>, municipio |-> <<"B", "E", "T", "I", "M">>,
     risp |-> 2]
Tipos == {<<"R", "O", "U", "B", "O">>, <<"F", "U", "R", "T", "O">>}

CleanRow(p, t) ==
    [municipio |-> p.municipio, cod_municipio |-> p.cod_municipio,
     natureza |-> t, rmbh |-> PyTrue, registros |-> 10, mes |-> 1,
     ano |-> 2023, risp |-> p.risp, natureza_padronizada |-> t]

LoaderRows ==
    {CleanRow(p, t) : p \in Places, t \in Tipos \cup {NaN}}
        \cup {CleanRow(Renamed, <<"R", "O", "U", "B", "O">>)}

LoaderFrames == SeqsUpTo(LoaderRows, MaxRows)

Init ==
    /\ risp = {}
    /\ municipio = {}
    /\ tipo_crime = {}
    /\ crime = {}
    /\ df = <<>>
    /\ tipo_crime_dict = <<>>
    /\ pc = "idle"
    /\ outcome = "none"
    /\ error = NoError
    /\ store0 = EmptyStore
    /\ rerun = FALSE
    /\ other = FALSE
    /\ raw = <<>>
    /\ tabela = <<>>
    /\ frame0 = <<>>
    /\ opcao = ""

(* history recorded when a call begins *)
Enter(d) ==
    /\ store0' = Store
    /\ rerun' = (outcome # "none" /\ d = df /\ store0 = EmptyStore)
    /\ other' = (d # df)
    /\ error' = NoError

(* variant: the municipalities are written before the regions *)
StepOrderMunicipioFirst == <<"municipio", "risp", "tipo_crime", "crime">>

(* lines 176, 188, 204, 222: the four inserts in the order the function    *)
(* runs them                                                               *)
StepOrder == <<"risp", "municipio", "tipo_crime", "crime">>

After(p) ==
    LET i == CHOOSE j \in DOMAIN StepOrder : StepOrder[j] = p
    IN IF i = Len(StepOrder) THEN "idle" ELSE StepOrder[i + 1]

(* the step at p has run without an exception: on to the next one, or      *)
(* return after the last (lines 239-241)                                   *)
Advance(p) ==
    /\ pc' = After(p)
    /\ outcome' = IF After(p) = "idle" THEN "inserted" ELSE outcome
    /\ UNCHANGED error

(* an exception leaves the function: the session's transaction is never     *)
(* committed                                                                *)
Raise(e) ==
    /\ pc' = "idle"
    /\ outcome' = "error"
    /\ error' = e

(* lines 166-169: rows in 'crime': report and return *)
SkipInsertion(d) ==
    /\ pc = "idle"
    /\ CrimeHasRows(Store)
    /\ Enter(d)
    /\ pc' = "idle"
    /\ outcome' = "skipped"
    /\ UNCHANGED <<risp, municipio, tipo_crime, crime, df, tipo_crime_dict,
                   raw, tabela, frame0, opcao>>

(* lines 160-166: no row in 'crime': go on to the inserts *)
BeginLoad(d) ==
    /\ pc = "idle"
    /\ ~ CrimeHasRows(Store)
    /\ Enter(d)
    /\ df' = d
    /\ tipo_crime_dict' = <<>>
    /\ pc' = StepOrder[1]
    /\ outcome' = "running"
    /\ UNCHANGED <<risp, municipio, tipo_crime, crime, raw, tabela, frame0, opcao>>

(* lines 176-182 *)
LoadRisp ==
    /\ pc = "risp"
    /\ LET tx == RispLoop(RispValues(df), Ok(Store))
       IN IF tx.err = NoError
          THEN /\ risp' = tx.db.risp
               /\ Advance("risp")
          ELSE /\ Raise(tx.err)
               /\ UNCHANGED risp
    /\ UNCHANGED <<municipio, tipo_crime, crime, df, tipo_crime_dict, store0,
                   rerun, other, raw, tabela, frame0, opcao>>

(* lines 188-198 *)
LoadMunicipio ==
    /\ pc = "municipio"
    /\ LET tx == MunicipioLoop(MunicipioRows(df), Ok(Store))
       IN IF tx.err = NoError
          THEN /\ municipio' = tx.db.municipio
               /\ Advance("municipio")
          ELSE /\ Raise(tx.err)
               /\ UNCHANGED municipio
    /\ UNCHANGED <<risp, tipo_crime, crime, df, tipo_crime_dict, store0,
                   rerun, other, raw, tabela, frame0, opcao>>

(* lines 204-215: every insert is committed at once, so the rows written    *)
(* before an exception stay                                                 *)
LoadTipoCrime ==
    /\ pc = "tipo_crime"
    /\ LET st == TipoLoop(TipoNames(df),
                          [db |-> Store, err |-> NoError, dict |-> <<>>])
       IN /\ tipo_crime' = st.db.tipo_crime
          /\ tipo_crime_dict' = st.dict
          /\ IF st.err = NoError
             THEN Advance("tipo_crime")
             ELSE Raise(st.err)
    /\ UNCHANGED <<risp, municipio, crime, df, store0, rerun, other, raw, tabela, frame0, opcao>>

(* lines 222-241 *)
LoadCrime ==
    /\ pc = "crime"
    /\ LET tx == CrimeLoop(df, Ok(Store), tipo_crime_dict)
       IN /\ crime' = CrimeCommit(tx, crime)
          /\ IF tx.err = NoError
             THEN Advance("crime")
             ELSE Raise(tx.err)
    /\ UNCHANGED <<risp, municipio, tipo_crime, df, tipo_crime_dict, store0,
                   rerun, other, raw, tabela, frame0, opcao>>

Next ==
    \/ \E d \in LoaderFrames : SkipInsertion(d)
    \/ \E d \in LoaderFrames : BeginLoad(d)
    \/ LoadRisp
    \/ LoadMunicipio
    \/ LoadTipoCrime
    \/ LoadCrime

Spec == Init /\ [][Next]_vars

(***************************************************************************)
(* Properties of the loader (specification Spec)                           *)
(***************************************************************************)
Counts(db) == <<Cardinality(db.risp), Cardinality(db.municipio),
                Cardinality(db.tipo_crime), Cardinality(db.crime)>>

Finished == pc = "idle" /\ outcome # "none"

HasNaNTipo(d) == \E i \in DOMAIN d : d[i].natureza_padronizada = NaN

(* C1: idempotence.  When a call repeats, with a frame of at least one     *)
(* row, the frame of the previous call and that call began on an empty     *)
(* store, the four row counts stay, during the call and after it, what     *)
(* they were when the previous call ended.                                 *)
C1_Idempotent ==
    (rerun /\ Len(df) >= 1) => Counts(Store) = Counts(store0)

(* the second call of a frame that filled the store has returned *)
C1_Witness ==
    /\ rerun
    /\ Finished
    /\ Len(df) >= 1
    /\ crime # {}
    /\ Counts(Store) = Counts(store0)

(* C2: uniqueness.  In every state no two risp rows share an id, no two    *)
(* municipio rows a cod_municipio, no two tipo_crime rows a nome, no two   *)
(* crime rows (municipio_id, tipo_crime_id, mes, ano); and the loader's    *)
(* own lookups achieve it: the store never has to reject a row as a        *)
(* duplicate.                                                              *)
UniqueKeys(db) ==
    /\ \A x, y \in db.risp : x.id = y.id => x = y
    /\ \A x, y \in db.municipio : x.cod_municipio = y.cod_municipio => x = y
    /\ \A x, y \in db.tipo_crime : x.nome = y.nome => x = y
    /\ \A x, y \in db.crime :
          (/\ x.municipio_id = y.municipio_id
           /\ x.tipo_crime_id = y.tipo_crime_id
           /\ x.mes = y.mes
           /\ x.ano = y.ano) => x = y

C2_Uniqueness == UniqueKeys(Store) /\ error # DuplicateKey

(* a load has ended whose frame gave one code two names and regions *)
C2_Witness ==
    /\ Finished
    /\ outcome = "inserted"
    /\ Len(df) = 2
    /\ df[1].cod_municipio = df[2].cod_municipio
    /\ df[1].municipio # df[2].municipio
    /\ Cardinality({m \in municipio : m.cod_municipio = df[1].cod_municipio}) = 1

(* C3: fast path.  A call that begins with a row in 'crime' leaves the     *)
(* four tables as they were, whatever its frame, and returns reporting     *)
(* that it skipped the inserts.                                            *)
C3_FastPath ==
    (store0.crime # {} /\ outcome # "none")
        => (Store = store0 /\ outcome = "skipped" /\ pc = "idle")

(* a call with a frame other than the one loaded has been skipped *)
C3_Witness ==
    /\ outcome = "skipped"
    /\ other
    /\ store0.crime # {}
    /\ Store = store0

(* C4: referential integrity by ordering.  In every state, every municipio *)
(* row references a stored risp id and every crime row a stored            *)
(* municipality code and a stored tipo_crime id, and no insert is ever     *)
(* rejected for a missing referenced row: the referenced rows are written  *)
(* first.                                                                  *)
ForeignKeysHold(db) ==
    /\ \A m \in db.municipio : \E r \in db.risp : r.id = m.risp_id
    /\ \A c \in db.crime :
          /\ \E m \in db.municipio : m.cod_municipio = c.municipio_id
          /\ \E t \in db.tipo_crime : t.id = c.tipo_crime_id

C4_ReferentialIntegrity == ForeignKeysHold(Store) /\ error # ForeignKey

(* a load into an empty store has written municipalities and incidents *)
C4_Witness ==
    /\ Finished
    /\ outcome = "inserted"
    /\ store0 = EmptyStore
    /\ Cardinality(risp) = 2
    /\ Cardinality(municipio) = 2
    /\ Cardinality(crime) = 2

(* C5: unresolvable references are fatal.  A call that goes past the fast  *)
(* path with a frame holding a row whose crime type is missing ends with   *)
(* an exception and adds no crime row; and no crime row ever holds a       *)
(* tipo_crime_id that is not the id of a named tipo_crime row, or a        *)
(* municipio_id that is not a stored code.                                 *)
C5_UnresolvableIsFatal ==
    /\ (Finished /\ outcome # "skipped" /\ HasNaNTipo(df))
          => (outcome = "error" /\ crime = store0.crime)
    /\ \A c \in crime :
          /\ \E m \in municipio : m.cod_municipio = c.municipio_id
          /\ \E t \in tipo_crime :
                t.id = c.tipo_crime_id /\ t.nome \in Tipos

(* a frame with a resolvable row and an unresolvable one has aborted *)
C5_Witness ==
    /\ Finished
    /\ outcome = "error"
    /\ error = BadParameter
    /\ Len(df) = 2
    /\ df[1].natureza_padronizada # NaN
    /\ df[2].natureza_padronizada = NaN
    /\ crime = {}

(* C7: insert-if-absent.  When a load into an empty store has completed,   *)
(* 'crime' holds exactly one row per distinct (cod_municipio,              *)
(* natureza_padronizada, mes, ano) of the frame, 'risp' one row per        *)
(* distinct risp, 'municipio' one per distinct cod_municipio and           *)
(* 'tipo_crime' one per distinct natureza_padronizada.                     *)
CrimeKeys(d) ==
    {<<d[i].cod_municipio, d[i].natureza_padronizada, d[i].mes, d[i].ano>> :
        i \in DOMAIN d}

StoredCrimeKeys(db) ==
    {<<c.municipio_id,
       (CHOOSE t \in db.tipo_crime : t.id = c.tipo_crime_id).nome,
       c.mes, c.ano>> : c \in db.crime}

C7_OneRowPerKey ==
    (Finished /\ outcome = "inserted" /\ store0 = EmptyStore)
        => /\ StoredCrimeKeys(Store) = CrimeKeys(df)
           /\ Cardinality(crime) = Cardinality(CrimeKeys(df))
           /\ {r.id : r \in risp} = Range(Column(df, "risp"))
           /\ Cardinality(risp) = Cardinality(Range(Column(df, "risp")))
           /\ {m.cod_municipio : m \in municipio} = Range(Column(df, "cod_municipio"))
           /\ Cardinality(municipio) = Cardinality(Range(Column(df, "cod_municipio")))
           /\ {t.nome : t \in tipo_crime} = Range(Column(df, "natureza_padronizada"))
           /\ Cardinality(tipo_crime)
                 = Cardinality(Range(Column(df, "natureza_padronizada")))

(* two identical rows have been loaded into an empty store *)
C7_Witness ==
    /\ Finished
    /\ outcome = "inserted"
    /\ store0 = EmptyStore
    /\ Len(df) = 2
    /\ df[1] = df[2]
    /\ Counts(Store) = <<1, 1, 1, 1>>

(* C8: append-only.  Every step keeps every row of the four tables, with   *)
(* the same values in every column.                                        *)
C8_AppendOnly ==
    [][/\ risp \subseteq risp'
       /\ municipio \subseteq municipio'
       /\ tipo_crime \subseteq tipo_crime'
       /\ crime \subseteq crime']_vars

(* a load has completed with a frame that names a stored municipality      *)
(* differently, and the stored row is as it was                            *)
C8_Witness ==
    /\ Finished
    /\ outcome = "inserted"
    /\ \E m \in store0.municipio : \E i \in DOMAIN df :
          /\ df[i].cod_municipio = m.cod_municipio
          /\ df[i].municipio # m.nome
          /\ df[i].risp # m.risp_id
          /\ m \in municipio

(***************************************************************************)
(* The loader with aborted runs (specification SpecAbort): frames with a   *)
(* row the store refuses in step 4, and statements that raise because the  *)
(* store cannot be reached                                                 *)
(***************************************************************************)
ConnectionLost == "connection to the store lost"

(* line 42: rmbh is NaN where the file has neither 'SIM' nor 'NÃO', and    *)
(* line 53 keeps such a row                                                *)
UnmappedRmbh(r) == [r EXCEPT !.rmbh = NaN]

(* cleaned rows: the two municipalities with one crime type, the first     *)
(* also with the other type and with the type missing, the second also     *)
(* with rmbh missing                                                       *)
AbortRows ==
    {CleanRow(p, <<"R", "O", "U", "B", "O">>) : p \in Places}
        \cup {CleanRow(p, t) : p \in {q \in Places : q.risp = 1},
                               t \in {<<"F", "U", "R", "T", "O">>, NaN}}
        \cup {UnmappedRmbh(CleanRow(p, <<"R", "O", "U", "B", "O">>)) :
                 p \in {q \in Places : q.risp = 2}}

AbortFrames == SeqsUpTo(AbortRows, MaxRows)

(* lines 176-198: a statement of step 1 or 2 raises; the step's commit     *)
(* (line 182, line 198) is not reached                                     *)
Interrupt ==
    /\ pc \in {"risp", "municipio"}
    /\ Raise(ConnectionLost)
    /\ UNCHANGED <<risp, municipio, tipo_crime, crime, df, tipo_crime_dict,
                   store0, rerun, other, raw, tabela, frame0, opcao>>

(* lines 204-214: the statement after the k-th name of step 3 raises; the  *)
(* rows of the first k names are committed (line 211)                      *)
InterruptTipoCrime(k) ==
    /\ pc = "tipo_crime"
    /\ k < Len(TipoNames(df))
    /\ LET st == TipoLoop(SubSeq(TipoNames(df), 1, k),
                          [db |-> Store, err |-> NoError, dict |-> <<>>])
       IN /\ st.err = NoError
          /\ tipo_crime' = st.db.tipo_crime
          /\ tipo_crime_dict' = st.dict
          /\ Raise(ConnectionLost)
    /\ UNCHANGED <<risp, municipio, crime, df, store0, rerun, other, raw,
                   tabela, frame0, opcao>>

(* lines 222-239: the statement after the k-th row of step 4 raises, the   *)
(* query of the next row or the commit                                     *)
InterruptCrime(k) ==
    /\ pc = "crime"
    /\ k <= Len(df)
    /\ LET tx == CrimeLoop(SubSeq(df, 1, k), Ok(Store), tipo_crime_dict)
       IN /\ tx.err = NoError
          /\ crime' = CrimeCommit(Fail(tx.db, ConnectionLost), crime)
          /\ Raise(ConnectionLost)
    /\ UNCHANGED <<risp, municipio, tipo_crime, df, tipo_crime_dict, store0,
                   rerun, other, raw, tabela, frame0, opcao>>

NextAbort ==
    \/ \E d \in AbortFrames : SkipInsertion(d)
    \/ \E d \in AbortFrames : BeginLoad(d)
    \/ LoadRisp
    \/ LoadMunicipio
    \/ LoadTipoCrime
    \/ LoadCrime
    \/ Interrupt
    \/ \E k \in 0..MaxRows : InterruptTipoCrime(k)
    \/ \E k \in 0..MaxRows : InterruptCrime(k)

SpecAbort == Init /\ [][NextAbort]_vars

(* C11: all-or-nothing.  In every state any sequence of calls reaches from *)
(* the empty store, aborted calls included, 'crime' is empty or holds      *)
(* exactly one row for every distinct (cod_municipio,                      *)
(* natureza_padronizada, mes, ano) of the frame that populated it, which   *)
(* is the frame of the last call that went past the fast path; so a call   *)
(* that skips finds every incident of that frame stored.  A call that      *)
(* completes, after aborted calls or not, has stored every incident of its *)
(* frame, and no table holds two rows with one key, nor was a duplicate    *)
(* key refused.                                                            *)
C11_AllOrNothing ==
    /\ crime # {} => /\ StoredCrimeKeys(Store) = CrimeKeys(df)
                     /\ Cardinality(crime) = Cardinality(CrimeKeys(df))
    /\ (Finished /\ outcome = "inserted")
          => StoredCrimeKeys(Store) = CrimeKeys(df)
    /\ UniqueKeys(Store)
    /\ error # DuplicateKey

(* a call with two incidents was aborted in step 4, after the regions,     *)
(* municipalities and crime types of its frame were committed; the call    *)
(* repeated with the same frame has added the two incidents and nothing    *)
(* else                                                                    *)
C11_Witness ==
    /\ Finished
    /\ outcome = "inserted"
    /\ rerun
    /\ store0.crime = {}
    /\ store0.risp = risp
    /\ store0.municipio = municipio
    /\ store0.tipo_crime = tipo_crime
    /\ tipo_crime # {}
    /\ Cardinality(crime) = 2

(***************************************************************************)
(* load_and_clean_data (lines 14-70).  raw is the frame read_csv returned: *)
(* a sequence of rows whose cells are texts or NaN.  A numeric cell of the *)
(* frame being built is {} for NaN and {n} for the number n.               *)
(***************************************************************************)
LowerChars == <<"a", "b", "c", "d", "e", "f", "g", "h", "i", "j", "k", "l", "m",
                "n", "o", "p", "q", "r", "s", "t", "u", "v", "w", "x", "y", "z",
                "ã">>
UpperChars == <<"A", "B", "C", "D", "E", "F", "G", "H", "I", "J", "K", "L", "M",
                "N", "O", "P", "Q", "R", "S", "T", "U", "V", "W", "X", "Y", "Z",
                "Ã">>
Digits == <<"0", "1", "2", "3", "4", "5", "6", "7", "8", "9">>

RECURSIVE LStrip(_)
LStrip(t) == IF t # <<>> /\ Head(t) = " " THEN LStrip(Tail(t)) ELSE t

RECURSIVE RStrip(_)
RStrip(t) ==
    IF t # <<>> /\ t[Len(t)] = " " THEN RStrip(SubSeq(t, 1, Len(t) - 1)) ELSE t

(* Series.str.strip(): NaN stays NaN *)
StrStrip(x) == IF x = NaN THEN NaN ELSE RStrip(LStrip(x))

UpperChar(c) ==
    IF \E i \in DOMAIN LowerChars : LowerChars[i] = c
    THEN UpperChars[CHOOSE i \in DOMAIN LowerChars : LowerChars[i] = c]
    ELSE c

(* Series.str.upper(): NaN stays NaN *)
StrUpper(x) == IF x = NaN THEN NaN ELSE [i \in DOMAIN x |-> UpperChar(x[i])]

(* line 42: .map({'SIM': True, 'NÃO': False}); any other value gives NaN *)
RmbhMap(x) ==
    IF x = <<"S", "I", "M">> THEN PyTrue
    ELSE IF x = <<"N", "Ã", "O">> THEN PyFalse
    ELSE NaN

(* line 47: astype(str) writes a missing value as the text nan *)
AsStr(x) == IF x = NaN THEN <<"n", "a", "n">> ELSE x

IsNumber(x) ==
    /\ x # NaN
    /\ x # <<>>
    /\ \A i \in DOMAIN x : \E j \in DOMAIN Digits : Digits[j] = x[i]

RECURSIVE NumberOf(_)
NumberOf(t) ==
    IF t = <<>> THEN 0
    ELSE NumberOf(SubSeq(t, 1, Len(t) - 1)) * 10
            + (CHOOSE j \in DOMAIN Digits : Digits[j] = t[Len(t)]) - 1

(* pd.to_numeric(..., errors='coerce') on a text of digits, another text or NaN *)
ToNumeric(x) == IF IsNumber(x) THEN {NumberOf(x)} ELSE {}

(* Series.astype(int) of a cell that holds a number *)
AsInt(n) == CHOOSE v \in n : TRUE

(* lines 36-50, one row *)
Coerce(r) ==
    [municipio |-> StrUpper(StrStrip(r.municipio)),
     cod_municipio |-> StrStrip(AsStr(r.cod_municipio)),
     natureza |-> StrStrip(r.natureza),
     rmbh |-> RmbhMap(StrUpper(StrStrip(r.rmbh))),
     registros |-> ToNumeric(r.registros),
     mes |-> ToNumeric(r.mes),
     ano |-> ToNumeric(r.ano),
     risp |-> ToNumeric(r.risp)]

(* line 50: astype(int) raises when the column holds a NaN *)
RispCastFails(rows) == \E i \in DOMAIN rows : rows[i].risp = {}

(* line 53: dropna(subset=["registros", "mes", "ano", "risp"]) keeps these *)
Complete(r) == r.registros # {} /\ r.mes # {} /\ r.ano # {} /\ r.risp # {}

(* lines 56-65, one row *)
Finish(r) ==
    [municipio |-> r.municipio,
     cod_municipio |-> r.cod_municipio,
     natureza |-> r.natureza,
     rmbh |-> r.rmbh,
     registros |-> AsInt(r.registros),
     mes |-> AsInt(r.mes),
     ano |-> AsInt(r.ano),
     risp |-> AsInt(r.risp),
     natureza_padronizada |-> StrUpper(r.natureza)]

CastError == "cannot convert NaN to integer"

RawRows ==
    [municipio : {<<" ", "b", "h">>},
     cod_municipio : {<<"A", "1", " ">>},
     natureza : {<<" ", "r", "o", "u", "b", "o">>},
     rmbh : {<<"s", "i", "m", " ">>, <<"x">>},
     registros : {<<"1", "2">>, <<"a", "b", "c">>},
     mes : {<<"1", "3">>, NaN},
     ano : {<<"2", "0", "2", "3">>, NaN},
     risp : {<<"2">>, <<"x">>}]

RawFrames == SeqsUpTo(RawRows, MaxRows)

InitNorm ==
    /\ raw \in RawFrames
    /\ pc = "read"
    /\ df = <<>>
    /\ error = NoError
    /\ outcome = "none"
    /\ risp = {}
    /\ municipio = {}
    /\ tipo_crime = {}
    /\ crime = {}
    /\ tipo_crime_dict = <<>>
    /\ store0 = EmptyStore
    /\ rerun = FALSE
    /\ other = FALSE
    /\ tabela = <<>>
    /\ frame0 = <<>>
    /\ opcao = ""

(* the whole function: the cleaned frame is returned, or the cast of line  *)
(* 50 raises and nothing is returned                                       *)
Normalize ==
    /\ pc = "read"
    /\ LET rows == [i \in DOMAIN raw |-> Coerce(raw[i])]
       IN IF RispCastFails(rows)
          THEN /\ pc' = "failed"
               /\ error' = CastError
               /\ UNCHANGED df
          ELSE /\ pc' = "clean"
               /\ df' = LET kept == SelectSeq(rows, Complete)
                        IN [i \in DOMAIN kept |-> Finish(kept[i])]
               /\ UNCHANGED error
    /\ UNCHANGED <<risp, municipio, tipo_crime, crime, tipo_crime_dict, outcome,
                   store0, rerun, other, raw, tabela, frame0, opcao>>

NextNorm == Normalize

SpecNorm == InitNorm /\ [][NextNorm]_vars

(* the rows of raw whose four numeric fields parse *)
Parsable(r) ==
    IsNumber(r.registros) /\ IsNumber(r.mes) /\ IsNumber(r.ano) /\ IsNumber(r.risp)

(* C6: row filtering.  When load_and_clean_data has ended it has returned, *)
(* without raising, exactly the rows whose registros, mes, ano and risp    *)
(* all parse as numbers, in their order and with those numbers.            *)
C6_RowFiltering ==
    pc \in {"clean", "failed"}
        => /\ pc = "clean"
           /\ LET want == SelectSeq(raw, Parsable)
              IN /\ Len(df) = Len(want)
                 /\ \A i \in DOMAIN want :
                       /\ df[i].registros = NumberOf(want[i].registros)
                       /\ df[i].mes = NumberOf(want[i].mes)
                       /\ df[i].ano = NumberOf(want[i].ano)
                       /\ df[i].risp = NumberOf(want[i].risp)

(***************************************************************************)
(* The projections (lines 246-347) and the menu loop of main (lines        *)
(* 370-391).  A printed table is a sequence of rows.                       *)
(***************************************************************************)

(* Python's range(a, b) *)
PyRange(a, b) == [i \in 1..(b - a) |-> a + i - 1]

(* groupby(col)["registros"].sum() for one key: the sum over its rows *)
RECURSIVE SumRegistros(_, _, _)
SumRegistros(d, col, k) ==
    IF d = <<>> THEN 0
    ELSE (IF Head(d)[col] = k THEN Head(d).registros ELSE 0)
            + SumRegistros(Tail(d), col, k)

(* groupby on a numeric column: the sums by key, for the keys present *)
GroupByNumber(d, col) ==
    [k \in Range(Column(d, col)) |-> SumRegistros(d, col, k)]

(* groupby on a text column: rows whose key is NaN are left out *)
GroupByText(d, col) ==
    [k \in Range(Column(d, col)) \ {NaN} |-> SumRegistros(d, col, k)]

(* set_index(col).reindex(index, fill_value=0).reset_index() *)
Reindex(grouped, col, index) ==
    [j \in DOMAIN index |->
        [c \in {col, "registros"} |->
            IF c = col THEN index[j]
            ELSE IF index[j] \in DOMAIN grouped THEN grouped[index[j]] ELSE 0]]

(* variant: range(1, 12) *)
MesIndexShort == PyRange(1, 12)

(* line 278: range(1, 13) *)
MesIndex == PyRange(1, 13)

(* line 312: range(1, 5) *)
TrimestreIndex == PyRange(1, 5)

(* lines 276-278 *)
CrimesPorMes(d) == Reindex(GroupByNumber(d, "mes"), "mes", MesIndex)

(* line 310: df['trimestre'] = ((df['mes'] - 1) // 3) + 1, a column written *)
(* into the frame the caller passed                                         *)
WithTrimestre(d) ==
    [i \in DOMAIN d |->
        [c \in DOMAIN d[i] \cup {"trimestre"} |->
            IF c = "trimestre" THEN ((d[i].mes - 1) \div 3) + 1 ELSE d[i][c]]]

(* lines 311-312 *)
CrimesPorTrimestre(d) ==
    Reindex(GroupByNumber(d, "trimestre"), "trimestre", TrimestreIndex)

(* sort_values(by="registros", ascending=False): the default sort is not    *)
(* stable, so rows with equal sums may come in any order                    *)
SortedByRegistros(grouped, col) ==
    LET keys == DOMAIN grouped
        n == Cardinality(keys)
    IN {[j \in 1..n |-> [c \in {col, "registros"} |->
                            IF c = col THEN f[j] ELSE grouped[f[j]]]] :
            f \in {g \in [1..n -> keys] :
                      /\ \A a, b \in 1..n : a # b => g[a] # g[b]
                      /\ \A a, b \in 1..n : a < b => grouped[g[a]] >= grouped[g[b]]}}

(* line 255: head(10) *)
TopN == 10

PyHead(t, n) == SubSeq(t, 1, IF Len(t) < n THEN Len(t) ELSE n)

(* lines 254-255 *)
TopMunicipios(d) ==
    {PyHead(t, TopN) : t \in SortedByRegistros(GroupByText(d, "municipio"), "municipio")}

(* lines 333-335 *)
CrimesPorTipo(d) ==
    SortedByRegistros(GroupByText(d, "natureza_padronizada"), "natureza_padronizada")

MenuRows ==
    {[municipio |-> p.municipio, cod_municipio |-> p.cod_municipio, natureza |-> t,
      rmbh |-> PyTrue, registros |-> n, mes |-> m, ano |-> 2023,
      risp |-> p.risp, natureza_padronizada |-> t] :
        p \in Places, t \in Tipos, n \in {3, 7}, m \in {5, 11, 13}}

MenuFrames == SeqsUpTo(MenuRows, MaxRows)

InitMenu ==
    /\ df \in MenuFrames
    /\ frame0 = df
    /\ pc = "menu"
    /\ opcao = ""
    /\ tabela = <<>>
    /\ raw = <<>>
    /\ error = NoError
    /\ outcome = "none"
    /\ risp = {}
    /\ municipio = {}
    /\ tipo_crime = {}
    /\ crime = {}
    /\ tipo_crime_dict = <<>>
    /\ store0 = EmptyStore
    /\ rerun = FALSE
    /\ other = FALSE

otherVars == <<risp, municipio, tipo_crime, crime, tipo_crime_dict, outcome,
                error, store0, rerun, other, raw, frame0>>

(* lines 379-380 *)
Opcao1 ==
    /\ pc = "menu"
    /\ opcao' = "1"
    /\ tabela' \in TopMunicipios(df)
    /\ UNCHANGED <<df, pc, otherVars>>

(* lines 381-382 *)
Opcao2 ==
    /\ pc = "menu"
    /\ opcao' = "2"
    /\ tabela' = CrimesPorMes(df)
    /\ UNCHANGED <<df, pc, otherVars>>

(* lines 383-384 *)
Opcao3 ==
    /\ pc = "menu"
    /\ opcao' = "3"
    /\ df' = WithTrimestre(df)
    /\ tabela' = CrimesPorTrimestre(df')
    /\ UNCHANGED <<pc, otherVars>>

(* lines 385-386 *)
Opcao4 ==
    /\ pc = "menu"
    /\ opcao' = "4"
    /\ tabela' \in CrimesPorTipo(df)
    /\ UNCHANGED <<df, pc, otherVars>>

(* lines 387-389 *)
Opcao5 ==
    /\ pc = "menu"
    /\ opcao' = "5"
    /\ pc' = "exit"
    /\ UNCHANGED <<df, tabela, otherVars>>

(* lines 390-391: anything else is answered and the menu comes back *)
OpcaoInvalida ==
    /\ pc = "menu"
    /\ opcao' \in {"0", "x"}
    /\ UNCHANGED <<df, pc, tabela, otherVars>>

NextMenu ==
    \/ Opcao1
    \/ Opcao2
    \/ Opcao3
    \/ Opcao4
    \/ Opcao5
    \/ OpcaoInvalida

SpecMenu == InitMenu /\ [][NextMenu]_vars

(* C9: the projections are read-only.  Whatever options were chosen, the   *)
(* frame main holds is the one the normalizer returned: same rows, same    *)
(* columns, same values.                                                   *)
C9_ReadOnly == df = frame0

RECURSIVE SumOfMonth(_, _)
SumOfMonth(d, m) ==
    IF d = <<>> THEN 0
    ELSE (IF Head(d).mes = m THEN Head(d).registros ELSE 0) + SumOfMonth(Tail(d), m)

(* C10: zero-fill of the by-month projection.  The table of option 2 has   *)
(* exactly 12 rows, row m for month m, m = 1..12 in ascending order, and   *)
(* its value is the sum of registros over the frame's rows of that month,  *)
(* 0 when there is none.                                                   *)
C10_ZeroFill ==
    opcao = "2"
        => /\ Len(tabela) = 12
           /\ \A m \in 1..12 :
                 /\ tabela[m].mes = m
                 /\ tabela[m].registros = SumOfMonth(frame0, m)
                 /\ (~ \E i \in DOMAIN frame0 : frame0[i].mes = m)
                       => tabela[m].registros = 0

(* the by-month table of a frame with rows in months 5 and 11 only *)
C10_Witness ==
    /\ opcao = "2"
    /\ Len(frame0) = 2
    /\ frame0[1].mes = 5
    /\ frame0[2].mes = 11
    /\ Len(tabela) = 12
    /\ tabela[5].registros = frame0[1].registros
    /\ tabela[11].registros = frame0[2].registros
    /\ \A m \in (1..12) \ {5, 11} : tabela[m].registros = 0

====
